---------------------------- MODULE Spec2Model ----------------------------
(***************************************************************************)
(* A model of src/mobius_strip.py: the class MobiusStrip, its constructor  *)
(* (linspace, meshgrid, _compute_mesh) and its two measurements            *)
(* (surface_area, edge_length).                                            *)
(*                                                                         *)
(* Arithmetic.  The program computes in float64.  The model computes in    *)
(* exact real arithmetic extended with the IEEE special values NaN and     *)
(* +-inf (numpy divides by zero without raising).  A finite number is      *)
(*      (a + b*sqrt2 + c*sqrt3 + d*sqrt6) / den * PI^pi                    *)
(* with a, b, c, d, pi integers and den a positive integer, kept in lowest *)
(* terms, so two numbers are equal as reals iff they are equal as records. *)
(* This field holds the sine and cosine of every multiple of PI/12, which  *)
(* are the sample angles u and u/2 for n - 1 dividing 12.  Sums of square  *)
(* roots (the two measurements) are kept as a coefficient and the list of  *)
(* radicands.  Rounding error is outside the model.                        *)
(***************************************************************************)
EXTENDS Integers, Sequences, FiniteSets

\* ------------------------------------------------------------- bounds
\* Largest R tried (R ranges over -1..MaxR).
MaxR == 2
\* Largest |w| tried (w ranges over -MaxW..MaxW).
MaxW == 2
\* Largest n tried (n ranges over -1..MaxN).  The sample angles are multiples
\* of PI/12 for every n up to 5.
MaxN == 4
\* Largest number of measurement calls on one instance.
MaxCalls == 3

\* ------------------------------------------------------ exact numbers
Abs(x) == IF x < 0 THEN -x ELSE x

Sgn(x) == IF x < 0 THEN -1 ELSE IF x > 0 THEN 1 ELSE 0

RECURSIVE Gcd(_, _)
Gcd(x, y) == IF y = 0 THEN x ELSE Gcd(y, x % y)

NaN == [k |-> "nan"]

Inf(s) == [k |-> "inf", s |-> s]

Zero == [k |-> "fin", a |-> 0, b |-> 0, c |-> 0, d |-> 0, den |-> 1, pi |-> 0]

\* (a + b*sqrt2 + c*sqrt3 + d*sqrt6) / den * PI^pi, in lowest terms; den # 0.
Fin(a, b, c, d, den, pi) ==
    IF a = 0 /\ b = 0 /\ c = 0 /\ d = 0 THEN Zero
    ELSE LET g == Gcd(Gcd(Gcd(Gcd(Abs(den), Abs(a)), Abs(b)), Abs(c)), Abs(d))
             s == IF den < 0 THEN -g ELSE g
         IN  [k |-> "fin", a |-> a \div s, b |-> b \div s, c |-> c \div s,
              d |-> d \div s, den |-> den \div s, pi |-> pi]

Rat(p, q) == Fin(p, 0, 0, 0, q, 0)

Num(p) == Rat(p, 1)

\* np.pi
Pi == Fin(1, 0, 0, 0, 1, 1)

IsZero(x) == x = Zero

\* The sign of a + b*sqrt2.
Sign2(a, b) ==
    IF a >= 0 /\ b >= 0 THEN (IF a = 0 /\ b = 0 THEN 0 ELSE 1)
    ELSE IF a <= 0 /\ b <= 0 THEN -1
    ELSE IF a > 0 THEN Sgn(a * a - 2 * b * b)
    ELSE Sgn(2 * b * b - a * a)

\* The sign of a number: of (a + b*sqrt2) + (c + d*sqrt2)*sqrt3 when finite.
Sign(x) ==
    CASE x.k = "inf" -> x.s
      [] x.k = "fin" ->
            LET sp == Sign2(x.a, x.b)
                sq == Sign2(x.c, x.d)
                \* P^2 - 3*Q^2 = e + f*sqrt2
                e == x.a * x.a + 2 * x.b * x.b - 3 * (x.c * x.c + 2 * x.d * x.d)
                f == 2 * x.a * x.b - 6 * x.c * x.d
            IN  IF sp >= 0 /\ sq >= 0 THEN (IF sp = 0 /\ sq = 0 THEN 0 ELSE 1)
                ELSE IF sp <= 0 /\ sq <= 0 THEN -1
                ELSE IF sp > 0 THEN Sign2(e, f)
                ELSE -Sign2(e, f)

Neg(x) ==
    CASE x.k = "nan" -> NaN
      [] x.k = "inf" -> Inf(-x.s)
      [] x.k = "fin" -> Fin(-x.a, -x.b, -x.c, -x.d, x.den, x.pi)

\* x + y.  Finite non-zero summands carry the same power of PI.
Add(x, y) ==
    CASE x.k = "nan" \/ y.k = "nan" -> NaN
      [] x.k = "inf" /\ y.k = "inf" -> IF x.s = y.s THEN x ELSE NaN
      [] x.k = "inf" /\ y.k = "fin" -> x
      [] x.k = "fin" /\ y.k = "inf" -> y
      [] x.k = "fin" /\ y.k = "fin" ->
            CASE IsZero(x) -> y
              [] IsZero(y) -> x
              [] ~IsZero(x) /\ ~IsZero(y) /\ x.pi = y.pi ->
                    Fin(x.a * y.den + y.a * x.den, x.b * y.den + y.b * x.den,
                        x.c * y.den + y.c * x.den, x.d * y.den + y.d * x.den,
                        x.den * y.den, x.pi)

Sub(x, y) == Add(x, Neg(y))

Mul(x, y) ==
    CASE x.k = "nan" \/ y.k = "nan" -> NaN
      [] x.k = "inf" /\ y.k # "nan" ->
            IF Sign(y) = 0 THEN NaN ELSE Inf(x.s * Sign(y))
      [] x.k = "fin" /\ y.k = "inf" ->
            IF Sign(x) = 0 THEN NaN ELSE Inf(y.s * Sign(x))
      [] x.k = "fin" /\ y.k = "fin" ->
            Fin(x.a * y.a + 2 * x.b * y.b + 3 * x.c * y.c + 6 * x.d * y.d,
                x.a * y.b + x.b * y.a + 3 * (x.c * y.d + x.d * y.c),
                x.a * y.c + x.c * y.a + 2 * (x.b * y.d + x.d * y.b),
                x.a * y.d + x.d * y.a + x.b * y.c + x.c * y.b,
                x.den * y.den, x.pi + y.pi)

\* x / y for a divisor that is a rational multiple of a power of PI (the
\* program divides by 2, by n - 1 and by the steps dU and dV only).
Div(x, y) ==
    CASE x.k = "nan" \/ y.k = "nan" -> NaN
      [] x.k = "inf" /\ y.k = "inf" -> NaN
      [] x.k = "inf" /\ y.k = "fin" ->
            IF Sign(y) < 0 THEN Inf(-x.s) ELSE x
      [] x.k = "fin" /\ y.k = "inf" -> Zero
      [] x.k = "fin" /\ y.k = "fin" /\ IsZero(y) ->
            IF IsZero(x) THEN NaN ELSE Inf(Sign(x))
      [] x.k = "fin" /\ y.k = "fin" /\ ~IsZero(y)
           /\ y.b = 0 /\ y.c = 0 /\ y.d = 0 ->
            Fin(x.a * y.den, x.b * y.den, x.c * y.den, x.d * y.den,
                x.den * y.a, x.pi - y.pi)

Sq(x) == Mul(x, x)


\* ------------------------------------------------------- numpy helpers
\* cos(k*PI/12), k in 0..23.
Cos12(k) ==
    LET first(m) == CASE m = 0 -> Num(1)
                      [] m = 1 -> Fin(0, 1, 0, 1, 4, 0)
                      [] m = 2 -> Fin(0, 0, 1, 0, 2, 0)
                      [] m = 3 -> Fin(0, 1, 0, 0, 2, 0)
                      [] m = 4 -> Rat(1, 2)
                      [] m = 5 -> Fin(0, -1, 0, 1, 4, 0)
                      [] m = 6 -> Zero
        half(m) == IF m <= 6 THEN first(m) ELSE Neg(first(12 - m))
    IN  IF k <= 12 THEN half(k) ELSE half(24 - k)

\* The angle x, a multiple of PI/12, in units of PI/12.
Angle12(x) == IF IsZero(x) THEN 0 ELSE (12 * x.a) \div x.den

IsAngle12(x) ==
    \/ IsZero(x)
    \/ x.pi = 1 /\ x.b = 0 /\ x.c = 0 /\ x.d = 0 /\ (12 * x.a) % x.den = 0

\* np.cos
cos(x) ==
    CASE x.k # "fin" -> NaN
      [] x.k = "fin" /\ IsAngle12(x) -> Cos12(Angle12(x) % 24)

\* np.sin
sin(x) ==
    CASE x.k # "fin" -> NaN
      [] x.k = "fin" /\ IsAngle12(x) -> Cos12((Angle12(x) - 6) % 24)

\* The number of elements of a 1-d array or of rows of a 2-d array; arrays
\* are functions on 0..len-1, indexed as in the program.
len(arr) == Cardinality(DOMAIN arr)

\* linspace with one sample too few (samples 0..num-2 of the same spacing).
linspace_short(start, stop, num) ==
    LET step == Div(Sub(stop, start), Num(num - 1))
    IN  [k \in 0..(num - 2) |-> Add(Mul(Num(k), step), start)]

\* linspace with endpoint=False: num samples of spacing (stop - start)/num.
linspace_noendpoint(start, stop, num) ==
    LET step == Div(Sub(stop, start), Num(num))
    IN  [k \in 0..(num - 1) |-> Add(Mul(Num(k), step), start)]

\* np.linspace(start, stop, num) for num >= 0, endpoint included.
linspace(start, stop, num) ==
    LET div   == num - 1
        delta == Sub(stop, start)
        step  == Div(delta, Num(div))
        y(k)  == IF div > 0
                 THEN IF IsZero(step) THEN Mul(Div(Num(k), Num(div)), delta)
                                      ELSE Mul(Num(k), step)
                 ELSE Mul(Num(k), delta)
    IN  [k \in 0..(num - 1) |->
            IF num > 1 /\ k = num - 1 THEN stop ELSE Add(y(k), start)]

\* meshgrid with indexing='ij': rows follow x, columns follow y.
meshgrid_ij(x, y) ==
    << [i \in DOMAIN x |-> [j \in DOMAIN y |-> x[i]]],
       [i \in DOMAIN x |-> [j \in DOMAIN y |-> y[j]]] >>

\* np.meshgrid(x, y), default indexing 'xy': len(y) rows, len(x) columns.
meshgrid(x, y) ==
    << [i \in DOMAIN y |-> [j \in DOMAIN x |-> x[j]]],
       [i \in DOMAIN y |-> [j \in DOMAIN x |-> y[i]]] >>

\* Central differences everywhere, the index wrapping around the axis.
gradient_wrap(G, h, axis) ==
    LET N == len(G)
        at(i, j, t) == IF axis = 1 THEN G[i][t % N] ELSE G[t % N][j]
        diff(i, j) ==
            LET t == IF axis = 1 THEN j ELSE i
            IN  Div(Sub(at(i, j, t + 1), at(i, j, t - 1)), Mul(Num(2), h))
    IN  [i \in DOMAIN G |-> [j \in DOMAIN G[i] |-> diff(i, j)]]

\* np.gradient(G, h, axis=axis) of a square 2-d array with at least two
\* elements per axis: second-order central differences inside, first-order
\* one-sided differences at the two ends of the axis.
gradient(G, h, axis) ==
    LET N == len(G)
        at(i, j, t) == IF axis = 1 THEN G[i][t] ELSE G[t][j]
        diff(i, j) ==
            LET t == IF axis = 1 THEN j ELSE i
            IN  IF t = 0 THEN Div(Sub(at(i, j, 1), at(i, j, 0)), h)
                ELSE IF t = N - 1
                     THEN Div(Sub(at(i, j, N - 1), at(i, j, N - 2)), h)
                ELSE Div(Sub(at(i, j, t + 1), at(i, j, t - 1)), Mul(Num(2), h))
    IN  [i \in DOMAIN G |-> [j \in DOMAIN G[i] |-> diff(i, j)]]

\* A sum of square roots times a coefficient: c * SUM sqrt(rads[p]).
SumSqrt(c, rads) == [k |-> "sum", c |-> c, rads |-> rads]

\* The sum over the cells of rows and columns 0..N-2 only.
np_sum_sqrt_interior(rad) ==
    LET N    == len(rad) - 1
        flat == [p \in 1..(N * N) |-> rad[(p - 1) \div N][(p - 1) % N]]
    IN  IF \E p \in 1..(N * N) : flat[p].k = "nan" \/ Sign(flat[p]) < 0 THEN NaN
        ELSE IF \E p \in 1..(N * N) : flat[p].k = "inf" THEN Inf(1)
        ELSE SumSqrt(Num(1), flat)

\* np.sum(np.sqrt(rad)) over a square 2-d array, flattened row by row.
np_sum_sqrt(rad) ==
    LET N    == len(rad)
        flat == [p \in 1..(N * N) |-> rad[(p - 1) \div N][(p - 1) % N]]
    IN  IF \E p \in 1..(N * N) : flat[p].k = "nan" \/ Sign(flat[p]) < 0 THEN NaN
        ELSE IF \E p \in 1..(N * N) : flat[p].k = "inf" THEN Inf(1)
        ELSE SumSqrt(Num(1), flat)

\* value * x for a value np.sum or sum() returned.
Scale(val, x) ==
    IF val.k = "sum"
    THEN IF x.k = "fin" THEN SumSqrt(Mul(val.c, x), val.rads)
         ELSE IF x.k = "nan" \/ \A p \in DOMAIN val.rads : IsZero(val.rads[p])
              THEN NaN ELSE Inf(x.s * Sign(val.c))
    ELSE Mul(val, x)

\* The square of scipy.spatial.distance.euclidean(p, q) for 3-d points.
euclidean2(p, q) ==
    Add(Add(Sq(Sub(p[1], q[1])), Sq(Sub(p[2], q[2]))), Sq(Sub(p[3], q[3])))

\* ------------------------------------------------------- _compute_mesh
\* MobiusStrip._compute_mesh: the three coordinate grids from R, U, V.
_compute_mesh(R_, U_, V_) ==
    LET rad(i, j) == Add(R_, Mul(V_[i][j], cos(Div(U_[i][j], Num(2)))))
    IN  << [i \in DOMAIN U_ |-> [j \in DOMAIN U_[i] |->
                Mul(rad(i, j), cos(U_[i][j]))]],
           [i \in DOMAIN U_ |-> [j \in DOMAIN U_[i] |->
                Mul(rad(i, j), sin(U_[i][j]))]],
           [i \in DOMAIN U_ |-> [j \in DOMAIN U_[i] |->
                Mul(V_[i][j], sin(Div(U_[i][j], Num(2))))]] >>

\* ------------------------------------------------------- surface_area
\* The locals of MobiusStrip.surface_area for an instance with at least two
\* samples per axis, and the value it returns.
surface_area_frame(u_, v_, X_, Y_, Z_) ==
    LET dU == Sub(u_[1], u_[0])
        dV == Sub(v_[1], v_[0])
        Xu == gradient(X_, dU, 1)
        Yu == gradient(Y_, dU, 1)
        Zu == gradient(Z_, dU, 1)
        Xv == gradient(X_, dV, 0)
        Yv == gradient(Y_, dV, 0)
        Zv == gradient(Z_, dV, 0)
        \* cross_prod = np.sqrt(cross2)
        cross2 == [i \in DOMAIN X_ |-> [j \in DOMAIN X_[i] |->
            Add(Add(Sq(Sub(Mul(Yu[i][j], Zv[i][j]), Mul(Zu[i][j], Yv[i][j]))),
                    Sq(Sub(Mul(Zu[i][j], Xv[i][j]), Mul(Xu[i][j], Zv[i][j])))),
                Sq(Sub(Mul(Xu[i][j], Yv[i][j]), Mul(Yu[i][j], Xv[i][j]))))]]
    IN  [k |-> "frame", dU |-> dU, dV |-> dV, Xu |-> Xu, Yu |-> Yu, Zu |-> Zu,
         Xv |-> Xv, Yv |-> Yv, Zv |-> Zv, cross2 |-> cross2,
         ret |-> Scale(Scale(np_sum_sqrt(cross2), dU), dV)]

\* -------------------------------------------------------- edge_length
\* The edge sampled at v = -w/2 instead of +w/2.
edge_coords_lower(R_, w_, u_) ==
    [t \in DOMAIN u_ |->
        << Mul(Add(R_, Mul(Div(Neg(w_), Num(2)), cos(Div(u_[t], Num(2))))), cos(u_[t])),
           Mul(Add(R_, Mul(Div(Neg(w_), Num(2)), cos(Div(u_[t], Num(2))))), sin(u_[t])),
           Mul(Div(Neg(w_), Num(2)), sin(Div(u_[t], Num(2)))) >>]

\* edge_coords of MobiusStrip.edge_length: one point per sample of u.
edge_coords(R_, w_, u_) ==
    [t \in DOMAIN u_ |->
        << Mul(Add(R_, Mul(Div(w_, Num(2)), cos(Div(u_[t], Num(2))))), cos(u_[t])),
           Mul(Add(R_, Mul(Div(w_, Num(2)), cos(Div(u_[t], Num(2))))), sin(u_[t])),
           Mul(Div(w_, Num(2)), sin(Div(u_[t], Num(2)))) >>]

\* sum(euclidean(edge_coords[i], edge_coords[i + 1]) for i in range(len - 1))
edge_sum(ec) ==
    LET m == IF len(ec) > 0 THEN len(ec) - 1 ELSE 0
        d2 == [p \in 1..m |-> euclidean2(ec[p - 1], ec[p])]
    IN  IF \E p \in 1..m : d2[p].k = "nan" THEN NaN
        ELSE IF \E p \in 1..m : d2[p].k = "inf" THEN Inf(1)
        ELSE SumSqrt(Num(1), d2)


\* ------------------------------------------------------------- state
\* pc: "new" before the constructor ran, "built" once it returned, "raised"
\* when it raised.  R .. Z are the attributes of the instance.  built is
\* the attributes as the constructor left them.  areaLog and edgeLog are
\* what the calls of surface_area and edge_length returned or raised, in
\* order; area_frame and edge_frame are the locals of the latest call.
VARIABLES pc, R, w, n, u, v, U, V, X, Y, Z,
          built, areaLog, edgeLog, area_frame, edge_frame

attrs == <<R, w, n, u, v, U, V, X, Y, Z>>

vars == <<pc, R, w, n, u, v, U, V, X, Y, Z,
          built, areaLog, edgeLog, area_frame, edge_frame>>

\* An attribute or local that was never assigned.
Unset == [k |-> "unset"]

\* An exception a call ended with.
Raise(e) == [k |-> "raise", exc |-> e]

Init ==
    /\ pc = "new"
    /\ R = Unset /\ w = Unset /\ n = Unset /\ u = Unset /\ v = Unset
    /\ U = Unset /\ V = Unset /\ X = Unset /\ Y = Unset /\ Z = Unset
    /\ built = Unset
    /\ areaLog = <<>> /\ edgeLog = <<>>
    /\ area_frame = Unset /\ edge_frame = Unset

\* MobiusStrip(R_, w_, n_).  np.linspace raises ValueError for n_ < 0;
\* nothing else in the constructor looks at its arguments.
__init__(R_, w_, n_) ==
    /\ pc = "new"
    /\ R' = Num(R_)
    /\ w' = Num(w_)
    /\ n' = n_
    /\ IF n_ < 0
       THEN /\ pc' = "raised"
            /\ UNCHANGED <<u, v, U, V, X, Y, Z, built>>
       ELSE /\ u' = linspace(Zero, Mul(Num(2), Pi), n_)
            /\ v' = linspace(Div(Neg(w'), Num(2)), Div(w', Num(2)), n_)
            /\ U' = meshgrid(u', v')[1]
            /\ V' = meshgrid(u', v')[2]
            /\ X' = _compute_mesh(R', U', V')[1]
            /\ Y' = _compute_mesh(R', U', V')[2]
            /\ Z' = _compute_mesh(R', U', V')[3]
            /\ built' = <<R', w', n', u', v', U', V', X', Y', Z'>>
            /\ pc' = "built"
    /\ UNCHANGED <<areaLog, edgeLog, area_frame, edge_frame>>

\* surface_area keeping the u-derivative of X in self.X.
surface_area_inplace ==
    /\ pc = "built"
    /\ Len(areaLog) + Len(edgeLog) < MaxCalls
    /\ len(u) >= 2
    /\ area_frame' = surface_area_frame(u, v, X, Y, Z)
    /\ areaLog' = Append(areaLog, area_frame'.ret)
    /\ X' = area_frame'.Xu
    /\ UNCHANGED <<pc, R, w, n, u, v, U, V, Y, Z, built, edgeLog, edge_frame>>

\* mobius.surface_area().  self.u[1] raises IndexError when n < 2.
surface_area ==
    /\ pc = "built"
    /\ Len(areaLog) + Len(edgeLog) < MaxCalls
    /\ IF len(u) < 2
       THEN /\ areaLog' = Append(areaLog, Raise("IndexError"))
            /\ UNCHANGED area_frame
       ELSE /\ area_frame' = surface_area_frame(u, v, X, Y, Z)
            /\ areaLog' = Append(areaLog, area_frame'.ret)
    /\ UNCHANGED <<pc, attrs, built, edgeLog, edge_frame>>

\* mobius.edge_length().
edge_length ==
    /\ pc = "built"
    /\ Len(areaLog) + Len(edgeLog) < MaxCalls
    /\ edge_frame' = [k |-> "frame", edge_coords |-> edge_coords(R, w, u)]
    /\ edgeLog' = Append(edgeLog, edge_sum(edge_frame'.edge_coords))
    /\ UNCHANGED <<pc, attrs, built, areaLog, area_frame>>

Next ==
    \/ \E R_ \in -1..MaxR, w_ \in -MaxW..MaxW, n_ \in -1..MaxN : __init__(R_, w_, n_)
    \/ surface_area
    \/ edge_length

Spec == Init /\ [][Next]_vars


\* ------------------------------------------------------------- claims
Idx == 0..(n - 1)

Two == Num(2)

TwoPi == Mul(Two, Pi)

Range(s) == {s[p] : p \in DOMAIN s}

\* A sequence as a multiset.
BagOf(s) == [x \in Range(s) |-> Cardinality({p \in DOMAIN s : s[p] = x})]

\* The sign of a value a measurement returned (a sum of square roots).
ValSign(val) ==
    CASE val.k = "sum" ->
            IF \A p \in DOMAIN val.rads : IsZero(val.rads[p]) THEN 0 ELSE Sign(val.c)
      [] val.k = "inf" -> val.s

\* Two returned values are the same real number (or the same outcome).
SameValue(a, b) ==
    \/ a = b
    \/ /\ a.k = "sum" /\ b.k = "sum"
       /\ ValSign(a) = ValSign(b)
       /\ (a.c = b.c \/ a.c = Neg(b.c))
       /\ BagOf(a.rads) = BagOf(b.rads)

\* The parametric surface point at (u_, v_).
SurfacePoint(R_, u_, v_) ==
    << Mul(Add(R_, Mul(v_, cos(Div(u_, Two)))), cos(u_)),
       Mul(Add(R_, Mul(v_, cos(Div(u_, Two)))), sin(u_)),
       Mul(v_, sin(Div(u_, Two))) >>

\* What surface_area() returns on MobiusStrip(R, w_, n) for R, n of the
\* instance and another width w_.
AreaWithWidth(w_) ==
    LET u2  == linspace(Zero, TwoPi, n)
        v2  == linspace(Div(Neg(w_), Two), Div(w_, Two), n)
        UV  == meshgrid(u2, v2)
        XYZ == _compute_mesh(R, UV[1], UV[2])
    IN  surface_area_frame(u2, v2, XYZ[1], XYZ[2], XYZ[3]).ret

\* C1: constructing with n < 2, R <= 0 or w <= 0 fails at construction: no
\* instance with such parameters exists, so none is ever measured.
C1_InvalidParametersRejected ==
    pc = "built" => (n >= 2 /\ Sign(R) > 0 /\ Sign(w) > 0)

\* C2: for w = 0, R > 0, n >= 2 surface_area() meets no division by zero and
\* no NaN and returns 0, and edge_length() returns a finite value.
C2_ZeroWidthComputable ==
    (pc = "built" /\ IsZero(w) /\ Sign(R) > 0 /\ n >= 2) =>
        /\ \A p \in DOMAIN areaLog :
              areaLog[p].k = "sum" /\ ValSign(areaLog[p]) = 0
        /\ \A p \in DOMAIN edgeLog : edgeLog[p].k = "sum"
        /\ area_frame.k = "frame" =>
              /\ ~IsZero(area_frame.dU) /\ ~IsZero(area_frame.dV)
              /\ \A i, j \in Idx : area_frame.cross2[i][j].k = "fin"

\* C3: for fixed R and n, surface_area() of the instance of width -w equals
\* surface_area() of the instance of width w, sign included.
C3_AreaInvariantUnderNegation ==
    (pc = "built" /\ n >= 2 /\ areaLog # <<>>) =>
        SameValue(areaLog[1], AreaWithWidth(Neg(w)))

\* What the program does instead of C3: negating w negates the area (the
\* same cell magnitudes, the coefficient dU*dV negated).
AreaNegatedUnderNegation ==
    (pc = "built" /\ n >= 2 /\ areaLog # <<>> /\ areaLog[1].k = "sum") =>
        LET m == AreaWithWidth(Neg(w))
        IN  /\ m.k = "sum" /\ m.c = Neg(areaLog[1].c)
            /\ BagOf(m.rads) = BagOf(areaLog[1].rads)
            /\ ValSign(m) = -ValSign(areaLog[1])
            /\ ValSign(areaLog[1]) \in {0, Sign(w)}

\* C4: for n >= 2, u and v have n elements and U, V, X, Y, Z have n rows of
\* n columns, in every state from the end of construction on.
C4_GridShapes ==
    (pc = "built" /\ n >= 2) =>
        /\ DOMAIN u = Idx /\ len(u) = n
        /\ DOMAIN v = Idx /\ len(v) = n
        /\ \A G \in {U, V, X, Y, Z} :
              /\ DOMAIN G = Idx /\ len(G) = n
              /\ \A i \in Idx : DOMAIN G[i] = Idx /\ len(G[i]) = n

C4_Witness ==
    pc = "built" /\ n = MaxN /\ Len(areaLog) >= 1 /\ Len(edgeLog) >= 1

\* C5: row = v-index, column = u-index: U[i][j] = u[j], V[i][j] = v[i], and
\* (X[i][j], Y[i][j], Z[i][j]) is the surface point at (u[j], v[i]).
C5_GridIndexing ==
    pc = "built" =>
        \A i, j \in Idx :
            /\ U[i][j] = u[j]
            /\ V[i][j] = v[i]
            /\ <<X[i][j], Y[i][j], Z[i][j]>> = SurfacePoint(R, u[j], v[i])

C5_Witness ==
    /\ pc = "built" /\ n >= 3 /\ ~IsZero(w)
    /\ U[0][1] # U[1][0] /\ V[0][1] # V[1][0]
    /\ <<X[0][1], Y[0][1], Z[0][1]>> # <<X[1][0], Y[1][0], Z[1][0]>>

\* C6: for n >= 2, u[t] = t*(2*pi)/(n-1) and v[t] = -w/2 + t*w/(n-1), so both
\* endpoints are samples and every adjacent pair differs by the step
\* dU = u[1]-u[0], dV = v[1]-v[0] that surface_area uses.
C6_UniformSpacing ==
    (pc = "built" /\ n >= 2) =>
        /\ \A t \in Idx :
              /\ u[t] = Div(Mul(Num(t), TwoPi), Num(n - 1))
              /\ v[t] = Add(Div(Neg(w), Two), Div(Mul(Num(t), w), Num(n - 1)))
        /\ u[0] = Zero /\ u[n - 1] = TwoPi
        /\ v[0] = Div(Neg(w), Two) /\ v[n - 1] = Div(w, Two)
        /\ \A t \in 0..(n - 2) :
              /\ Sub(u[t + 1], u[t]) = Sub(u[1], u[0])
              /\ Sub(v[t + 1], v[t]) = Sub(v[1], v[0])
        /\ area_frame.k = "frame" =>
              /\ area_frame.dU = Sub(u[1], u[0])
              /\ area_frame.dV = Sub(v[1], v[0])

C6_Witness ==
    pc = "built" /\ n = MaxN /\ Sign(w) < 0 /\ area_frame.k = "frame"

\* C7: surface_area() and edge_length() are pure: after any calls, in any
\* order, the attributes are as the constructor left them and every call
\* returned what the first call of that operation returned.
C7_MeasurementsPure ==
    pc = "built" =>
        /\ attrs = built
        /\ \A p \in DOMAIN areaLog : areaLog[p] = areaLog[1]
        /\ \A p \in DOMAIN edgeLog : edgeLog[p] = edgeLog[1]

C7_Witness ==
    /\ pc = "built" /\ n >= 3 /\ ~IsZero(w)
    /\ Len(areaLog) >= 2 /\ Len(edgeLog) >= 1

\* The difference stencil of C8 for one grid G and its two derivatives.
Stencil(G, Gu, Gv, dU, dV) ==
    \A i, j \in Idx :
        /\ Gu[i][j] =
              IF j = 0 THEN Div(Sub(G[i][1], G[i][0]), dU)
              ELSE IF j = n - 1 THEN Div(Sub(G[i][n - 1], G[i][n - 2]), dU)
              ELSE Div(Sub(G[i][j + 1], G[i][j - 1]), Mul(Two, dU))
        /\ Gv[i][j] =
              IF i = 0 THEN Div(Sub(G[1][j], G[0][j]), dV)
              ELSE IF i = n - 1 THEN Div(Sub(G[n - 1][j], G[n - 2][j]), dV)
              ELSE Div(Sub(G[i + 1][j], G[i - 1][j]), Mul(Two, dV))

\* C8: in surface_area() the u-derivative of X, Y, Z runs along columns with
\* step dU and the v-derivative along rows with step dV, central inside,
\* one-sided at the first and last index, with no wraparound.
C8_GradientStencil ==
    area_frame.k = "frame" =>
        LET f == area_frame
        IN  /\ Stencil(X, f.Xu, f.Xv, f.dU, f.dV)
            /\ Stencil(Y, f.Yu, f.Yv, f.dU, f.dV)
            /\ Stencil(Z, f.Zu, f.Zv, f.dU, f.dV)

C8_Witness ==
    /\ area_frame.k = "frame" /\ n >= 4 /\ ~IsZero(w)
    /\ area_frame.Xu[0][n - 1] #
          Div(Sub(X[0][0], X[0][n - 2]), Mul(Two, area_frame.dU))
    /\ area_frame.Xu[0][1] # area_frame.Xu[0][0]

\* C9: on an instance with n >= 2, edge_length() measures the open polyline
\* through n boundary points, one per sample of u in order, summing the n-1
\* distances of consecutive points and no closing segment, and the t-th
\* point is the grid point (X[n-1][t], Y[n-1][t], Z[n-1][t]).
C9_EdgePolyline ==
    (pc = "built" /\ n >= 2 /\ edge_frame.k = "frame") =>
        LET ec == edge_frame.edge_coords
        IN  /\ DOMAIN ec = Idx /\ len(ec) = n
            /\ \A t \in Idx : ec[t] = <<X[n - 1][t], Y[n - 1][t], Z[n - 1][t]>>
            /\ \A p \in DOMAIN edgeLog :
                  /\ edgeLog[p].k = "sum" /\ edgeLog[p].c = Num(1)
                  /\ Len(edgeLog[p].rads) = n - 1
                  /\ \A t \in 1..(n - 1) :
                        edgeLog[p].rads[t] = euclidean2(ec[t - 1], ec[t])

C9_Witness ==
    /\ pc = "built" /\ n >= 3 /\ ~IsZero(w) /\ edge_frame.k = "frame"
    /\ edge_frame.edge_coords[0] # edge_frame.edge_coords[n - 1]
    /\ edge_frame.edge_coords[0] # <<X[0][0], Y[0][0], Z[0][0]>>

\* The squared magnitude of the cross product (Xu,Yu,Zu) x (Xv,Yv,Zv) at
\* cell (i, j) of a frame of surface_area.
CrossMagnitude2(f, i, j) ==
    LET cx == Sub(Mul(f.Yu[i][j], f.Zv[i][j]), Mul(f.Zu[i][j], f.Yv[i][j]))
        cy == Sub(Mul(f.Zu[i][j], f.Xv[i][j]), Mul(f.Xu[i][j], f.Zv[i][j]))
        cz == Sub(Mul(f.Xu[i][j], f.Yv[i][j]), Mul(f.Yu[i][j], f.Xv[i][j]))
    IN  Add(Add(Sq(cx), Sq(cy)), Sq(cz))

\* surface_area() returns dU*dV times the sum of the cross-product
\* magnitudes of all n*n cells, each cell counted once (NaN when a
\* magnitude is NaN).
ReturnsWeightedSumOfAllCells ==
    LET f == area_frame
    IN  IF \E i, j \in Idx : CrossMagnitude2(f, i, j).k = "nan"
        THEN f.ret = NaN
        ELSE /\ f.ret.k = "sum"
             /\ f.ret.c = Mul(f.dU, f.dV)
             /\ Len(f.ret.rads) = n * n
             /\ \A i, j \in Idx :
                   /\ f.ret.rads[i * n + j + 1] = CrossMagnitude2(f, i, j)
                   /\ Sign(f.ret.rads[i * n + j + 1]) >= 0

\* The total weight of the n*n cells.
TotalWeight == Mul(Num(n * n), Mul(area_frame.dU, area_frame.dV))

\* C10, as the specification states it: the value is dU*dV times the sum
\* over all n*n cells, and the cells' total weight is the area 2*pi*w of the
\* parameter domain (a left Riemann sum).
C10_LeftRiemannSum ==
    area_frame.k = "frame" =>
        /\ ReturnsWeightedSumOfAllCells
        /\ TotalWeight = Mul(TwoPi, w)

\* C10, amended: the value is dU*dV times the sum over all n*n cells, and
\* the cells' total weight is n*n*dU*dV = 2*pi*w*n^2/(n-1)^2, which is not
\* the area 2*pi*w of the parameter domain unless w = 0.
C10_AllCellsWeighted ==
    area_frame.k = "frame" =>
        /\ ReturnsWeightedSumOfAllCells
        /\ TotalWeight = Div(Mul(Mul(TwoPi, w), Num(n * n)), Num((n - 1) * (n - 1)))
        /\ ~IsZero(w) => TotalWeight # Mul(TwoPi, w)

C10_Witness ==
    /\ area_frame.k = "frame" /\ n >= 3 /\ ~IsZero(w)
    /\ area_frame.ret.k = "sum" /\ ValSign(area_frame.ret) # 0
    /\ areaLog[Len(areaLog)] = area_frame.ret

=============================================================================
